---- MODULE Spec2Model ----
(***************************************************************************)
(* Model of the conversation context manager and streaming coordinator:    *)
(*   src/src/core/sliding-window/improved-truncation.ts  (truncator)       *)
(*   src/src/services/token-budget/index.ts              (token ledger)    *)
(*   src/src/services/cache-monitor/index.ts             (cache ledger)    *)
(*   src/src/api/providers/anthropic.ts                  (coordinator)     *)
(*                                                                         *)
(* Conventions.  JavaScript arrays are 0-based, sequences here are 1-based:*)
(* the array index k is the sequence position k+1.  An optional number     *)
(* that is undefined is modelled as 0, because every place the code reads  *)
(* one tests it for truthiness (`if (x)`, `x && x > 0`, `x || 0`,          *)
(* `x || undefined`, a default parameter `= 0`), which treats undefined    *)
(* and 0 alike.  Scores and money are kept as exact scaled integers.       *)
(***************************************************************************)
EXTENDS Integers, Sequences, FiniteSets, TLC

VARIABLES
    \* ---- AnthropicHandler (one coordinator instance) ----
    apiModelId,   \* options.apiModelId, fixed at construction
    budget,       \* TokenBudgetService.budget
    metrics,      \* CacheMonitor.metrics
    pc,           \* position of the createMessage generator
    susp,         \* TRUE while the generator is suspended at a yield
    history,      \* the caller's message array
    working,      \* the local `messages` after the truncation check
    request,      \* the messages of the request sent to the provider
    consumed,     \* the provider events pulled from the stream in this call
    emitted,      \* the normalized events yielded to the caller in this call
    obs,          \* observation record (counters of what has happened)
    \* ---- improvedTruncateConversation applied as a pure function ----
    tMessages, tOpts, tResult, tDone,
    \* ---- the two ledgers and a caller of their public methods ----
    profile,      \* TokenBudgetService.modelInfo
    snapB,        \* the object last returned by getRemainingBudget
    snapM,        \* the object last returned by getDetailedMetrics
    last,         \* the last ledger method called, its arguments and result
    \* ---- services/large-file: a LargeFileWriter and its target file ----
    lfw,          \* the LargeFileWriter's fields, its ChunkManager among them
    disk,         \* the target file and the temp directories
    wcall         \* the last LargeFileWriter method called and how it ended

vars == << apiModelId, budget, metrics, pc, susp, history, working, request,
           consumed, emitted, obs, tMessages, tOpts, tResult, tDone,
           profile, snapB, snapM, last, lfw, disk, wcall >>

coordVars == << apiModelId, budget, metrics, pc, susp, history, working,
                request, consumed, emitted, obs >>
truncVars == << tMessages, tOpts, tResult, tDone >>
probeVars == << profile, snapB, snapM, last >>
writerVars == << lfw, disk, wcall >>

----------------------------------------------------------------------------
(* Bounds *)

MaxLen == 5          \* longest history given to the truncator on its own
MaxRetain == 2       \* largest minRetainCount / maxRetainCount tried
MaxShort == 3        \* dispatch: every history up to this length ...
MaxLong == 7         \* ... and the alternating histories of length 6..MaxLong
MaxEvents == 2       \* provider events pulled per call
MaxCalls == 2        \* createMessage calls per coordinator
MaxOps == 3          \* ledger methods called directly on one pair of ledgers
MaxDispatches == 3   \* createMessage calls per coordinator when only the ledgers are followed
MaxChunks == 2       \* chunks added to one ChunkManager
MaxOrphans == 1      \* temp directories left behind by managers dropped without cleanup

----------------------------------------------------------------------------
(* Generic helpers *)

Min(a, b) == IF a < b THEN a ELSE b
Max(a, b) == IF a > b THEN a ELSE b

RECURSIVE SeqsUpTo(_, _)
SeqsUpTo(S, n) ==
    IF n = 0 THEN { << >> }
    ELSE LET shorter == SeqsUpTo(S, n - 1)
         IN  shorter \cup { Append(s, x) : s \in { t \in shorter : Len(t) = n - 1 }, x \in S }

\* Array.prototype.sort((a, b) => a - b) on a set of distinct numbers
RECURSIVE SortAscending(_)
SortAscending(S) ==
    IF S = {} THEN << >>
    ELSE LET m == CHOOSE x \in S : \A y \in S : x <= y
         IN  << m >> \o SortAscending(S \ {m})

----------------------------------------------------------------------------
(* Messages.  A message is what the code reads of a MessageParam:          *)
(*   role, whether content is a string or a block array (kind, nseg),      *)
(*   the length of the flattened text (len) and whether the flattened      *)
(*   text includes 'tool_use' or 'tool_result' (tool).  id names the       *)
(*   object, so that two equal-looking messages stay distinguishable.      *)

Undefined == [id |-> 0, role |-> "undefined", kind |-> "undefined", nseg |-> 0,
              len |-> 0, tool |-> FALSE]

Msg(id, role, kind, nseg, len, tool) ==
    [id |-> id, role |-> role, kind |-> kind, nseg |-> nseg, len |-> len, tool |-> tool]

----------------------------------------------------------------------------
(* improved-truncation.ts *)

defaultOptions ==
    [minRetainCount |-> 4, maxRetainCount |-> 20,
     recentMessageWeight |-> 4, contentLengthWeight |-> 3, toolUseWeight |-> 3]
    \* weights in tenths: 0.4, 0.3, 0.3

\* calculateMessageScore, multiplied by 10 * 1000 * totalMessages so that it
\* is an integer:  recency (index+1)/total * w_r  +  min(len/1000, 1) * w_l
\* +  (tool ? 1 : 0) * w_t.   index is the 0-based position among candidates.
calculateMessageScore(message, index, totalMessages, options) ==
    (index + 1) * options.recentMessageWeight * 1000
    + Min(message.len, 1000) * options.contentLengthWeight * totalMessages
    + (IF message.tool THEN 1 ELSE 0) * options.toolUseWeight * 1000 * totalMessages

\* messages[0]: undefined when the array is empty
firstMessage(messages) == IF Len(messages) >= 1 THEN messages[1] ELSE Undefined

\* messages.slice(1)
messagesToScore(messages) == IF Len(messages) >= 1 THEN Tail(messages) ELSE << >>

\* scoredMessages before sorting: {score, index}, index = idx + 1 (0-based
\* index into messages)
scoredMessages(messages, options) ==
    LET cand == messagesToScore(messages)
    IN  [i \in 1..Len(cand) |->
            [score |-> calculateMessageScore(cand[i], i - 1, Len(cand), options),
             index |-> i]]

\* variant: among entries of equal score the later one goes first
sortedRankLaterFirst(scored, i) ==
    Cardinality({ j \in 1..Len(scored) :
                    \/ scored[j].score > scored[i].score
                    \/ scored[j].score = scored[i].score /\ j > i })

\* 0-based position of scored entry i after scoredMessages.sort((a, b) =>
\* b.score - a.score): the sort is stable, so an entry goes after every entry
\* of higher score and after every earlier entry of equal score.
sortedRank(scored, i) ==
    Cardinality({ j \in 1..Len(scored) :
                    \/ scored[j].score > scored[i].score
                    \/ scored[j].score = scored[i].score /\ j < i })

retainCount(messages, options) ==
    Min(Max(options.minRetainCount, Len(messages) \div 2), options.maxRetainCount)

\* variant: the kept indices left in score order (the final sort dropped)
indicesToKeepUnsorted(messages, options) ==
    LET scored == scoredMessages(messages, options)
        n      == Min(Len(scored), Max(retainCount(messages, options), 0))
    IN  [r \in 1..n |-> scored[CHOOSE i \in 1..Len(scored) : sortedRank(scored, i) = r - 1].index]

\* scoredMessages.slice(0, retainCount).map(m => m.index).sort((a, b) => a - b)
indicesToKeep(messages, options) ==
    LET scored == scoredMessages(messages, options)
        kept   == { i \in 1..Len(scored) :
                      sortedRank(scored, i) < retainCount(messages, options) }
    IN  SortAscending({ scored[i].index : i \in kept })

improvedTruncateConversation(messages, options) ==
    LET keep == indicesToKeep(messages, options)
    IN  << firstMessage(messages) >> \o [k \in 1..Len(keep) |-> messages[keep[k] + 1]]

----------------------------------------------------------------------------
(* shared/api: the model table read by getModel and TokenBudgetService.    *)
(* Prices are dollars per million tokens, kept in hundredths.              *)

anthropicDefaultModelId == "claude-3-5-sonnet-20241022"

anthropicModels ==
    [id \in { "claude-3-5-sonnet-20241022", "claude-3-5-haiku-20241022" } |->
        IF id = "claude-3-5-sonnet-20241022"
        THEN [contextWindow |-> 200000, maxTokens |-> 8192,
              inputPrice |-> 300, outputPrice |-> 1500,
              cacheWritesPrice |-> 375, cacheReadsPrice |-> 30]
        ELSE [contextWindow |-> 200000, maxTokens |-> 8192,
              inputPrice |-> 100, outputPrice |-> 500,
              cacheWritesPrice |-> 125, cacheReadsPrice |-> 10]]

\* a value with none of ModelInfo's fields: every field reads undefined
NoProfile == [contextWindow |-> 0, maxTokens |-> 0, inputPrice |-> 0,
              outputPrice |-> 0, cacheWritesPrice |-> 0, cacheReadsPrice |-> 0]

\* a property name the table object has without it being a key written in
\* the table: the members every object inherits from Object.prototype
\* (constructor, toString, valueOf, hasOwnProperty, ...), one of them
InheritedNames == { "constructor" }

\* the values options.apiModelId takes: two table entries, an id that is
\* no property of the table, "" for an id that is missing or empty, and an
\* inherited name
ApiModelIds == { "claude-3-5-sonnet-20241022", "claude-3-5-haiku-20241022",
                 "unknown-model", "" } \cup InheritedNames

\* `modelId in anthropicModels': own and inherited property names alike
In(modelId) == modelId \in DOMAIN anthropicModels \cup InheritedNames

\* anthropicModels[id]; an inherited member is a function, not a ModelInfo
Lookup(id) ==
    IF id \in DOMAIN anthropicModels THEN anthropicModels[id] ELSE NoProfile

\* AnthropicHandler.getModel
getModel(modelId) ==
    IF modelId # "" /\ In(modelId)
    THEN [id |-> modelId, info |-> Lookup(modelId)]
    ELSE [id |-> anthropicDefaultModelId, info |-> anthropicModels[anthropicDefaultModelId]]

----------------------------------------------------------------------------
(* services/token-budget/index.ts *)

maxInputUtilization == 85     \* 0.85, in hundredths
outputTokenBuffer == 4096
defaultContextWindow == 200000

\* this.modelInfo.contextWindow || 200_000
contextWindowOf(info) ==
    IF info.contextWindow # 0 THEN info.contextWindow ELSE defaultContextWindow

initializeBudget(info) ==
    [availableInputTokens |-> (contextWindowOf(info) * maxInputUtilization) \div 100,
     reservedOutputTokens |-> outputTokenBuffer,
     totalUsedTokens |-> 0,
     reads |-> 0,
     writes |-> 0]

\* variant: availableInputTokens stops at zero
updateUsageClamped(b, inputTokens, outputTokens, cacheReads, cacheWrites) ==
    [b EXCEPT !.totalUsedTokens = @ + inputTokens + outputTokens,
              !.availableInputTokens = Max(0, @ - inputTokens),
              !.reads = IF cacheReads # 0 THEN @ + cacheReads ELSE @,
              !.writes = IF cacheWrites # 0 THEN @ + cacheWrites ELSE @]

updateUsage(b, inputTokens, outputTokens, cacheReads, cacheWrites) ==
    [b EXCEPT !.totalUsedTokens = @ + inputTokens + outputTokens,
              !.availableInputTokens = @ - inputTokens,
              !.reads = IF cacheReads # 0 THEN @ + cacheReads ELSE @,
              !.writes = IF cacheWrites # 0 THEN @ + cacheWrites ELSE @]

\* variant: truncation is due from the limit on, the limit included
shouldTruncateHistoryAtLimit(b, info) ==
    b.totalUsedTokens * 100 >= maxInputUtilization * contextWindowOf(info)

\* variant: truncation is due only when the whole window is used up
shouldTruncateHistoryFullWindow(b, info) ==
    b.totalUsedTokens > contextWindowOf(info)

\* getTokenUtilization() > maxInputUtilization, i.e.
\* totalUsedTokens / contextWindow > 0.85, without the division
shouldTruncateHistory(b, info) ==
    b.totalUsedTokens * 100 > maxInputUtilization * contextWindowOf(info)

----------------------------------------------------------------------------
(* services/cache-monitor/index.ts.  costSaved is kept in units of 1e-8    *)
(* dollars: tokens * (price in hundredths).                                *)

initialMetrics ==
    [hits |-> 0, misses |-> 0, totalTokensSaved |-> 0,
     writeTokens |-> 0, readTokens |-> 0, costSaved |-> 0]

\* variant: writes are looked at first, reads only when there are none
trackCacheUsageWritesFirst(m, cacheReadTokens, cacheWriteTokens, inputTokens, baseInputPrice, cacheReadPrice) ==
    IF cacheWriteTokens > 0
    THEN [m EXCEPT !.writeTokens = @ + cacheWriteTokens,
                   !.misses = @ + 1]
    ELSE IF cacheReadTokens > 0
    THEN [m EXCEPT !.hits = @ + 1,
                   !.readTokens = @ + cacheReadTokens,
                   !.costSaved = @ + (inputTokens * baseInputPrice - cacheReadTokens * cacheReadPrice),
                   !.totalTokensSaved = @ + (inputTokens - cacheReadTokens)]
    ELSE m

\* variant: a call with both reads and writes counts as a hit and as a miss
trackCacheUsageBoth(m, cacheReadTokens, cacheWriteTokens, inputTokens, baseInputPrice, cacheReadPrice) ==
    LET afterRead ==
            IF cacheReadTokens > 0
            THEN [m EXCEPT !.hits = @ + 1,
                           !.readTokens = @ + cacheReadTokens,
                           !.costSaved = @ + (inputTokens * baseInputPrice - cacheReadTokens * cacheReadPrice),
                           !.totalTokensSaved = @ + (inputTokens - cacheReadTokens)]
            ELSE m
    IN  IF cacheWriteTokens > 0
        THEN [afterRead EXCEPT !.writeTokens = @ + cacheWriteTokens,
                               !.misses = @ + 1]
        ELSE afterRead

trackCacheUsage(m, cacheReadTokens, cacheWriteTokens, inputTokens, baseInputPrice, cacheReadPrice) ==
    IF cacheReadTokens > 0
    THEN [m EXCEPT !.hits = @ + 1,
                   !.readTokens = @ + cacheReadTokens,
                   !.costSaved = @ + (inputTokens * baseInputPrice - cacheReadTokens * cacheReadPrice),
                   !.totalTokensSaved = @ + (inputTokens - cacheReadTokens)]
    ELSE IF cacheWriteTokens > 0
    THEN [m EXCEPT !.writeTokens = @ + cacheWriteTokens,
                   !.misses = @ + 1]
    ELSE m

\* variant: the rates are divided without looking at the divisor
getEfficiencyMetricsUnguarded(m) ==
    [hitRate |-> << m.hits, m.hits + m.misses >>,
     tokenSavingsRate |-> << m.totalTokensSaved, m.readTokens + m.writeTokens >>,
     costEfficiency |-> << m.costSaved, m.writeTokens >>]

\* getEfficiencyMetrics: each rate is << numerator, denominator >>, and
\* << 0, 1 >> is the literal 0 of the code's else branches
getEfficiencyMetrics(m) ==
    [hitRate |-> IF m.hits + m.misses > 0
                 THEN << m.hits, m.hits + m.misses >> ELSE << 0, 1 >>,
     tokenSavingsRate |-> IF m.readTokens + m.writeTokens > 0
                          THEN << m.totalTokensSaved, m.readTokens + m.writeTokens >>
                          ELSE << 0, 1 >>,
     costEfficiency |-> IF m.writeTokens > 0
                        THEN << m.costSaved, m.writeTokens >> ELSE << 0, 1 >>]

\* getDetailedMetrics: { ...this.metrics }, every field a number
getDetailedMetrics(m) == m

\* variant: reset leaves costSaved as it is
resetKeepingCost(m) == [initialMetrics EXCEPT !.costSaved = m.costSaved]

\* CacheMonitor.reset
reset(m) == initialMetrics

----------------------------------------------------------------------------
(* services/token-budget/index.ts: the accessors *)

\* variant: the request is measured against what is left of the budget
canAccommodateTokensOfAvailable(b, info, inputTokens, estimatedOutputTokens) ==
    inputTokens + estimatedOutputTokens + b.reservedOutputTokens <= b.availableInputTokens

\* canAccommodateTokens
canAccommodateTokens(b, info, inputTokens, estimatedOutputTokens) ==
    inputTokens + estimatedOutputTokens + b.reservedOutputTokens <= contextWindowOf(info)

\* calculateCacheCost, in units of 1e-8 dollars
calculateCacheCost(b, info) ==
    IF info.cacheReadsPrice = 0 \/ info.cacheWritesPrice = 0
    THEN 0
    ELSE b.reads * info.cacheReadsPrice + b.writes * info.cacheWritesPrice

\* estimateCost, in units of 1e-8 dollars
estimateCost(b, info) ==
    IF info.inputPrice = 0 \/ info.outputPrice = 0
    THEN 0
    ELSE b.totalUsedTokens * info.inputPrice + calculateCacheCost(b, info)

\* getRemainingBudget: { ...this.budget } copies the three numbers and the
\* reference to the ledger's own cacheTokens object
getRemainingBudget(b) ==
    [availableInputTokens |-> b.availableInputTokens,
     reservedOutputTokens |-> b.reservedOutputTokens,
     totalUsedTokens |-> b.totalUsedTokens,
     cacheTokens |-> "ledger.cacheTokens"]

\* what a holder of a TokenBudget object reads in it: the cacheTokens
\* reference leads to the ledger's reads and writes as they are now
BudgetView(o, b) ==
    [availableInputTokens |-> o.availableInputTokens,
     reservedOutputTokens |-> o.reservedOutputTokens,
     totalUsedTokens |-> o.totalUsedTokens,
     reads |-> b.reads,
     writes |-> b.writes]

----------------------------------------------------------------------------
(* api/providers/anthropic.ts: createMessage up to the request *)

\* variant: truncates whatever the ledger says
PreflightAlways(messages, b, info) ==
    improvedTruncateConversation(messages, defaultOptions)

\* lines 39-41: the truncation check
Preflight(messages, b, info) ==
    IF shouldTruncateHistory(b, info)
    THEN improvedTruncateConversation(messages, defaultOptions)
    ELSE messages

\* the case labels of the outer switch (modelId)
PromptCachingModels ==
    { "claude-3-5-sonnet-20241022", "claude-3-opus-20240229", "claude-3-haiku-20240307" }

\* messages.reduce(...): the 0-based indices of the user messages, ascending
userMsgIndices(messages) ==
    SortAscending({ i - 1 : i \in { j \in 1..Len(messages) : messages[j].role = "user" } })

\* userMsgIndices[userMsgIndices.length - 1] ?? -1
lastUserMsgIndex(messages) ==
    LET u == userMsgIndices(messages)
    IN  IF Len(u) >= 1 THEN u[Len(u)] ELSE -1

\* userMsgIndices[userMsgIndices.length - 2] ?? -1
secondLastMsgUserIndex(messages) ==
    LET u == userMsgIndices(messages)
    IN  IF Len(u) >= 2 THEN u[Len(u) - 1] ELSE -1

\* One message of the request.  mark is the 1-based position of the content
\* segment that carries cache_control, 0 when none does; fresh tells whether
\* the request holds a new object or the caller's own.
\* A string content becomes one text block carrying the marker; in a block
\* array the last block gets it.
annotate(message) ==
    [id |-> message.id, role |-> message.role,
     nseg |-> IF message.kind = "string" THEN 1 ELSE message.nseg,
     mark |-> IF message.kind = "string" THEN 1 ELSE message.nseg,
     fresh |-> TRUE]

asIs(message) ==
    [id |-> message.id, role |-> message.role, nseg |-> message.nseg,
     mark |-> 0, fresh |-> FALSE]

\* variant: only the last user message is annotated
requestMessagesLastOnly(modelId, messages) ==
    IF modelId \in PromptCachingModels
    THEN [k \in 1..Len(messages) |->
            IF k - 1 = lastUserMsgIndex(messages)
            THEN annotate(messages[k])
            ELSE asIs(messages[k])]
    ELSE [k \in 1..Len(messages) |-> asIs(messages[k])]

\* lines 45-111: the messages of the request for a model id
requestMessages(modelId, messages) ==
    IF modelId \in PromptCachingModels
    THEN [k \in 1..Len(messages) |->
            IF k - 1 = lastUserMsgIndex(messages) \/ k - 1 = secondLastMsgUserIndex(messages)
            THEN annotate(messages[k])
            ELSE asIs(messages[k])]
    ELSE [k \in 1..Len(messages) |-> asIs(messages[k])]

\* msg.role on an undefined element throws a TypeError inside reduce
requestThrows(modelId, messages) ==
    /\ modelId \in PromptCachingModels
    /\ \E k \in 1..Len(messages) : messages[k] = Undefined

----------------------------------------------------------------------------
(* The truncator on its own: Init draws a history and options, the one     *)
(* action applies the function.                                            *)

\* `private chunkManager: ChunkManager | undefined', undefined
NoChunkManager ==
    [defined |-> FALSE, tempDir |-> FALSE, isInitialized |-> FALSE,
     chunks |-> << >>, chunkFiles |-> 0, combinedContent |-> << >>,
     processedLines |-> 0, totalFileLines |-> 0, averageChunkSize |-> << 0, 1 >>,
     lastChunkSize |-> 0, isFinalChunkReceived |-> FALSE]

\* an optional string or field that is undefined
Unset == [set |-> FALSE, val |-> << >>]

\* LargeFileWriter as its constructor leaves it (lines 15-23)
NewWriter ==
    [chunkManager |-> NoChunkManager,
     originalContent |-> Unset,
     createdDirs |-> << >>,
     documentWasOpen |-> FALSE,
     relPath |-> [set |-> FALSE, val |-> ""],
     isEditing |-> FALSE,
     diffViewProvider |-> [set |-> FALSE, editType |-> "undefined"]]

\* no LargeFileWriter call made; the target file absent
IdleWriter ==
    /\ lfw = NewWriter
    /\ disk = [exists |-> FALSE, content |-> << >>, orphans |-> 0]
    /\ wcall = [op |-> "none", outcome |-> "none", phase |-> "never"]

NoArgs == << 0, 0, 0, 0, 0 >>
NoCall == [n |-> 0, op |-> "none", prev |-> "none", args |-> NoArgs, ret |-> 0]

\* no ledger method called yet, no snapshot handed out
NoProbe ==
    /\ snapB = [taken |-> FALSE, obj |-> getRemainingBudget(initializeBudget(NoProfile)),
                was |-> BudgetView(initializeBudget(NoProfile), initializeBudget(NoProfile))]
    /\ snapM = [taken |-> FALSE, obj |-> initialMetrics, was |-> initialMetrics]
    /\ last = NoCall

TruncKinds == { [len |-> 0, tool |-> FALSE], [len |-> 600, tool |-> FALSE],
                [len |-> 2000, tool |-> FALSE], [len |-> 600, tool |-> TRUE] }

TruncHistories ==
    { [i \in 1..Len(s) |-> Msg(i, IF i % 2 = 1 THEN "user" ELSE "assistant",
                                "string", 1, s[i].len, s[i].tool)] :
        s \in SeqsUpTo(TruncKinds, MaxLen) }

TruncOptions ==
    { [defaultOptions EXCEPT !.minRetainCount = lo, !.maxRetainCount = hi] :
        lo \in 0..MaxRetain, hi \in 0..MaxRetain }

IdleCoordinator ==
    /\ apiModelId = "none"
    /\ budget = [availableInputTokens |-> 0, reservedOutputTokens |-> 0,
                 totalUsedTokens |-> 0, reads |-> 0, writes |-> 0]
    /\ metrics = [hits |-> 0, misses |-> 0, totalTokensSaved |-> 0,
                  writeTokens |-> 0, readTokens |-> 0, costSaved |-> 0]
    /\ pc = "None"
    /\ susp = FALSE
    /\ history = << >>
    /\ working = << >>
    /\ request = << >>
    /\ consumed = << >>
    /\ emitted = << >>
    /\ obs = [calls |-> 0, checks |-> 0, truncs |-> 0, requests |-> 0, preTotal |-> 0,
              starts |-> 0, updates |-> 0, tracks |-> 0,
              sumIn |-> 0, sumOut |-> 0, sumReads |-> 0, sumWrites |-> 0,
              sumDelta |-> 0, hits |-> 0, misses |-> 0,
              resets |-> 0, aliasWrites |-> 0, twin |-> initialMetrics,
         overBefore |-> FALSE, both |-> 0]

TruncInit ==
    /\ IdleCoordinator
    /\ profile = NoProfile
    /\ NoProbe
    /\ IdleWriter
    /\ tMessages \in TruncHistories
    /\ tOpts \in { o \in TruncOptions : o.minRetainCount <= o.maxRetainCount }
    /\ tResult = << >>
    /\ tDone = FALSE

ApplyTruncate ==
    /\ ~tDone
    /\ tResult' = improvedTruncateConversation(tMessages, tOpts)
    /\ tDone' = TRUE
    /\ UNCHANGED << tMessages, tOpts >>
    /\ UNCHANGED coordVars
    /\ UNCHANGED probeVars
    /\ UNCHANGED writerVars

TruncNext == ApplyTruncate

SpecTruncate == TruncInit /\ [][TruncNext]_vars

----------------------------------------------------------------------------
(* The coordinator: one AnthropicHandler, its two ledgers, and the          *)
(* createMessage generator run by a caller, one call at a time.            *)

\* usage of a message_start event:
\* input_tokens, output_tokens, cache_read_input_tokens, cache_creation_input_tokens
Usage(i, o, r, w) == [input |-> i, output |-> o, cacheRead |-> r, cacheWrite |-> w]
NoUsage == Usage(0, 0, 0, 0)

StartUsages == { Usage(1000, 1, 0, 0),          \* no cache traffic
                 Usage(180000, 2, 500, 200),    \* reads and writes; crosses 85%
                 Usage(300, 0, 0, 200) }        \* writes only

Chunk(type, sub, index, text, usage) ==
    [type |-> type, sub |-> sub, index |-> index, text |-> text, usage |-> usage]

\* the events a provider stream may deliver
ProviderEvents ==
    { Chunk("message_start", "", 0, "", u) : u \in StartUsages }
    \cup { Chunk("message_delta", "", 0, "", Usage(0, 7, 0, 0)) }
    \cup { Chunk("content_block_start", "text", i, "a", NoUsage) : i \in 0..1 }
    \cup { Chunk("content_block_start", "tool_use", 1, "", NoUsage) }
    \cup { Chunk("content_block_delta", "text_delta", 1, "b", NoUsage) }
    \cup { Chunk("content_block_delta", "input_json_delta", 1, "", NoUsage) }
    \cup { Chunk("message_stop", "", 0, "", NoUsage) }

\* normalized events; from is the ordinal of the provider event they come from
UsageEvent(i, o, w, r, from) ==
    [type |-> "usage", inputTokens |-> i, outputTokens |-> o,
     cacheWriteTokens |-> w, cacheReadTokens |-> r, text |-> "", from |-> from]
TextEvent(t, from) ==
    [type |-> "text", inputTokens |-> 0, outputTokens |-> 0,
     cacheWriteTokens |-> 0, cacheReadTokens |-> 0, text |-> t, from |-> from]

\* the message arrays a caller passes: every sequence of roles up to
\* MaxShort (content a two-block array at odd positions, a string at even
\* ones), and long alternating ones that the default options can shorten
Roles == { "user", "assistant" }

LongHistory(n) ==
    [i \in 1..n |-> Msg(i, IF i % 2 = 1 THEN "user" ELSE "assistant",
                        IF i % 4 = 1 THEN "blocks" ELSE "string",
                        IF i % 4 = 1 THEN 2 ELSE 1,
                        IF i % 3 = 0 THEN 100 ELSE 1500,
                        i = 2)]

Histories ==
    { [i \in 1..Len(s) |-> Msg(i, s[i],
                                IF i % 2 = 1 THEN "blocks" ELSE "string",
                                IF i % 2 = 1 THEN 2 ELSE 1, 50, FALSE)] :
        s \in SeqsUpTo(Roles, MaxShort) }
    \cup { LongHistory(n) : n \in 6..MaxLong }

Terminal == { "Drained", "Failed", "Abandoned" }

modelInfo == getModel(apiModelId).info

IdleTruncator ==
    /\ tMessages = << >>
    /\ tOpts = defaultOptions
    /\ tResult = << >>
    /\ tDone = FALSE

\* what has happened so far.  Per call: checks, truncs, requests, preTotal.
\* Since construction: calls, the start events received and the sums of
\* their counters, the ledger calls made, the delta output received.
obs0 == [calls |-> 0, checks |-> 0, truncs |-> 0, requests |-> 0, preTotal |-> 0,
         starts |-> 0, updates |-> 0, tracks |-> 0,
         sumIn |-> 0, sumOut |-> 0, sumReads |-> 0, sumWrites |-> 0,
         sumDelta |-> 0, hits |-> 0, misses |-> 0,
         resets |-> 0, aliasWrites |-> 0, twin |-> initialMetrics,
         overBefore |-> FALSE, both |-> 0]

\* the constructor (lines 22-32), and a caller holding a message array
Init ==
    /\ apiModelId \in ApiModelIds
    /\ budget = initializeBudget(Lookup(getModel(apiModelId).id))
    /\ metrics = initialMetrics
    /\ pc = "Idle"
    /\ susp = FALSE
    /\ history \in Histories
    /\ working = << >>
    /\ request = << >>
    /\ consumed = << >>
    /\ emitted = << >>
    /\ obs = obs0
    /\ IdleTruncator
    /\ profile = Lookup(getModel(apiModelId).id)
    /\ NoProbe
    /\ IdleWriter

\* the caller's array after createMessage has run over it: reduce, map,
\* slice and the object spreads build new values, the parameter `messages`
\* is only rebound
callerArrayAfter(messages) == messages

\* the caller starts the generator: lines 35-41, the truncation check
CheckTruncation ==
    /\ pc = "Idle"
    /\ working' = Preflight(history, budget, modelInfo)
    /\ obs' = [obs EXCEPT !.calls = @ + 1,
                          !.checks = @ + 1,
                          !.truncs = @ + (IF shouldTruncateHistory(budget, modelInfo)
                                          THEN 1 ELSE 0),
                          !.preTotal = budget.totalUsedTokens]
    /\ pc' = "Preflight"
    /\ history' = callerArrayAfter(history)
    /\ UNCHANGED << apiModelId, budget, metrics, susp, request, consumed, emitted >>
    /\ UNCHANGED truncVars
    /\ UNCHANGED probeVars
    /\ UNCHANGED writerVars

\* lines 45-111: the request is built and sent
IssueRequest ==
    /\ pc = "Preflight"
    /\ LET id == getModel(apiModelId).id
       IN  IF requestThrows(id, working)
           THEN /\ request' = << >>
                /\ pc' = "Failed"
                /\ obs' = obs
           ELSE /\ request' = requestMessages(id, working)
                /\ pc' = "Await"
                /\ obs' = [obs EXCEPT !.requests = @ + 1]
    /\ history' = callerArrayAfter(history)
    /\ UNCHANGED << apiModelId, budget, metrics, susp, working, consumed, emitted >>
    /\ UNCHANGED truncVars
    /\ UNCHANGED probeVars
    /\ UNCHANGED writerVars

\* variant: the separator test is index >= 0
pcAfterSeparatorAlways(chunk) ==
    CASE chunk.type = "message_start" -> "StartBudget"
      [] chunk.type = "message_delta" -> "DeltaYield"
      [] chunk.type = "content_block_start" /\ chunk.sub = "text" -> "BlockSeparator"
      [] chunk.type = "content_block_delta" /\ chunk.sub = "text_delta" -> "DeltaText"
      [] OTHER -> "Await"

\* variant: a content block of any type is emitted as text
pcAfterAnyBlock(chunk) ==
    CASE chunk.type = "message_start" -> "StartBudget"
      [] chunk.type = "message_delta" -> "DeltaYield"
      [] chunk.type = "content_block_start" ->
            IF chunk.index > 0 THEN "BlockSeparator" ELSE "BlockText"
      [] chunk.type = "content_block_delta" /\ chunk.sub = "text_delta" -> "DeltaText"
      [] OTHER -> "Await"

\* where the generator goes after pulling a chunk: the two nested switches
\* (lines 114, 150, 166) and the test of line 152
pcAfter(chunk) ==
    CASE chunk.type = "message_start" -> "StartBudget"
      [] chunk.type = "message_delta" -> "DeltaYield"
      [] chunk.type = "content_block_start" /\ chunk.sub = "text" ->
            IF chunk.index > 0 THEN "BlockSeparator" ELSE "BlockText"
      [] chunk.type = "content_block_delta" /\ chunk.sub = "text_delta" -> "DeltaText"
      [] OTHER -> "Await"

\* for await: the stream delivers the next event (line 113)
NextChunk(chunk) ==
    /\ pc = "Await"
    /\ ~susp
    /\ Len(consumed) < MaxEvents
    /\ consumed' = Append(consumed, chunk)
    /\ pc' = pcAfter(chunk)
    /\ obs' = IF chunk.type = "message_start"
              THEN [obs EXCEPT !.starts = @ + 1,
                               !.sumIn = @ + chunk.usage.input,
                               !.sumOut = @ + chunk.usage.output,
                               !.sumReads = @ + chunk.usage.cacheRead,
                               !.sumWrites = @ + chunk.usage.cacheWrite,
                               !.both = @ + (IF chunk.usage.cacheRead > 0
                                                  /\ chunk.usage.cacheWrite > 0
                                               THEN 1 ELSE 0),
                               !.hits = @ + (IF chunk.usage.cacheRead > 0 THEN 1 ELSE 0),
                               !.misses = @ + (IF chunk.usage.cacheRead = 0
                                                  /\ chunk.usage.cacheWrite > 0
                                               THEN 1 ELSE 0)]
              ELSE IF chunk.type = "message_delta"
              THEN [obs EXCEPT !.sumDelta = @ + chunk.usage.output]
              ELSE obs
    /\ UNCHANGED << apiModelId, budget, metrics, susp, history, working, request, emitted >>
    /\ UNCHANGED truncVars
    /\ UNCHANGED probeVars
    /\ UNCHANGED writerVars

current == consumed[Len(consumed)]

\* variant: the usage is forwarded to the token ledger twice
StartUpdateBudgetTwice ==
    /\ pc = "StartBudget"
    /\ budget' = updateUsage(updateUsage(budget, current.usage.input, current.usage.output,
                                         current.usage.cacheRead, current.usage.cacheWrite),
                             current.usage.input, current.usage.output,
                             current.usage.cacheRead, current.usage.cacheWrite)
    /\ obs' = [obs EXCEPT !.updates = @ + 2]
    /\ pc' = "StartCache"
    /\ UNCHANGED << apiModelId, metrics, susp, history, working, request, consumed, emitted >>
    /\ UNCHANGED truncVars
    /\ UNCHANGED probeVars
    /\ UNCHANGED writerVars

\* lines 116-123
StartUpdateBudget ==
    /\ pc = "StartBudget"
    /\ budget' = updateUsage(budget, current.usage.input, current.usage.output,
                             current.usage.cacheRead, current.usage.cacheWrite)
    /\ obs' = [obs EXCEPT !.updates = @ + 1]
    /\ pc' = "StartCache"
    /\ UNCHANGED << apiModelId, metrics, susp, history, working, request, consumed, emitted >>
    /\ UNCHANGED truncVars
    /\ UNCHANGED probeVars
    /\ UNCHANGED writerVars

\* lines 125-131
StartTrackCache ==
    /\ pc = "StartCache"
    /\ metrics' = trackCacheUsage(metrics, current.usage.cacheRead, current.usage.cacheWrite,
                                  current.usage.input, modelInfo.inputPrice,
                                  modelInfo.cacheReadsPrice)
    /\ obs' = [obs EXCEPT !.tracks = @ + 1]
    /\ pc' = "StartYield"
    /\ UNCHANGED << apiModelId, budget, susp, history, working, request, consumed, emitted >>
    /\ UNCHANGED truncVars
    /\ UNCHANGED probeVars
    /\ UNCHANGED writerVars

\* variant: the event is put in front of what was emitted
YieldInFront(event, next) ==
    /\ emitted' = << event >> \o emitted
    /\ susp' = TRUE
    /\ pc' = next
    /\ UNCHANGED << apiModelId, budget, metrics, history, working, request, consumed, obs >>
    /\ UNCHANGED truncVars
    /\ UNCHANGED probeVars
    /\ UNCHANGED writerVars

Yield(event, next) ==
    /\ emitted' = Append(emitted, event)
    /\ susp' = TRUE
    /\ pc' = next
    /\ UNCHANGED << apiModelId, budget, metrics, history, working, request, consumed, obs >>
    /\ UNCHANGED truncVars
    /\ UNCHANGED probeVars
    /\ UNCHANGED writerVars

\* lines 133-140
StartYieldUsage ==
    /\ pc = "StartYield"
    /\ Yield(UsageEvent(current.usage.input, current.usage.output,
                        current.usage.cacheWrite, current.usage.cacheRead,
                        Len(consumed)), "Await")

\* lines 142-148
DeltaYieldUsage ==
    /\ pc = "DeltaYield"
    /\ Yield(UsageEvent(0, current.usage.output, 0, 0, Len(consumed)), "Await")

\* lines 152-157
BlockYieldSeparator ==
    /\ pc = "BlockSeparator"
    /\ ~susp
    /\ Yield(TextEvent("\n", Len(consumed)), "BlockText")

\* lines 158-162
BlockYieldText ==
    /\ pc = "BlockText"
    /\ ~susp
    /\ Yield(TextEvent(current.text, Len(consumed)), "Await")

\* lines 167-172
DeltaYieldText ==
    /\ pc = "DeltaText"
    /\ Yield(TextEvent(current.text, Len(consumed)), "Await")

\* the caller asks for the next normalized event
Resume ==
    /\ susp
    /\ susp' = FALSE
    /\ UNCHANGED << apiModelId, budget, metrics, pc, history, working, request,
                    consumed, emitted, obs >>
    /\ UNCHANGED truncVars
    /\ UNCHANGED probeVars
    /\ UNCHANGED writerVars

\* the caller stops iterating: the generator is closed where it is suspended
Abandon ==
    /\ susp
    /\ susp' = FALSE
    /\ pc' = "Abandoned"
    /\ UNCHANGED << apiModelId, budget, metrics, history, working, request,
                    consumed, emitted, obs >>
    /\ UNCHANGED truncVars
    /\ UNCHANGED probeVars
    /\ UNCHANGED writerVars

\* the stream is exhausted: the for await loop and the generator end
StreamEnd ==
    /\ pc = "Await"
    /\ ~susp
    /\ pc' = "Drained"
    /\ UNCHANGED << apiModelId, budget, metrics, susp, history, working, request,
                    consumed, emitted, obs >>
    /\ UNCHANGED truncVars
    /\ UNCHANGED probeVars
    /\ UNCHANGED writerVars

\* variant: a failure puts the token ledger back to its initial state
StreamFailRollback ==
    /\ pc = "Await"
    /\ ~susp
    /\ pc' = "Failed"
    /\ budget' = initializeBudget(modelInfo)
    /\ UNCHANGED << apiModelId, metrics, susp, history, working, request,
                    consumed, emitted, obs >>
    /\ UNCHANGED truncVars
    /\ UNCHANGED probeVars
    /\ UNCHANGED writerVars

\* the request or the stream throws: nothing catches it, the generator rejects
StreamFail ==
    /\ pc = "Await"
    /\ ~susp
    /\ pc' = "Failed"
    /\ UNCHANGED << apiModelId, budget, metrics, susp, history, working, request,
                    consumed, emitted, obs >>
    /\ UNCHANGED truncVars
    /\ UNCHANGED probeVars
    /\ UNCHANGED writerVars

\* the caller, done with one call, holds the array of its next call
\* variant: each call starts with a token ledger as the constructor made it
PrepareCallFreshBudget(h, n) ==
    /\ pc \in Terminal
    /\ obs.calls < n
    /\ pc' = "Idle"
    /\ history' = h
    /\ working' = << >>
    /\ request' = << >>
    /\ consumed' = << >>
    /\ emitted' = << >>
    /\ obs' = [obs EXCEPT !.checks = 0, !.truncs = 0, !.requests = 0, !.preTotal = 0,
                          !.overBefore = @ \/ obs.truncs = 1]
    /\ budget' = initializeBudget(modelInfo)
    /\ UNCHANGED << apiModelId, metrics, susp >>
    /\ UNCHANGED truncVars
    /\ UNCHANGED probeVars
    /\ UNCHANGED writerVars

\* the caller gets ready to call createMessage again on the same handler,
\* up to n calls in all; obs.overBefore: an earlier call truncated
PrepareCallUpTo(h, n) ==
    /\ pc \in Terminal
    /\ obs.calls < n
    /\ pc' = "Idle"
    /\ history' = h
    /\ working' = << >>
    /\ request' = << >>
    /\ consumed' = << >>
    /\ emitted' = << >>
    /\ obs' = [obs EXCEPT !.checks = 0, !.truncs = 0, !.requests = 0, !.preTotal = 0,
                          !.overBefore = @ \/ obs.truncs = 1]
    /\ UNCHANGED << apiModelId, budget, metrics, susp >>
    /\ UNCHANGED truncVars
    /\ UNCHANGED probeVars
    /\ UNCHANGED writerVars

PrepareCall(h) == PrepareCallUpTo(h, MaxCalls)

Next ==
    \/ CheckTruncation
    \/ IssueRequest
    \/ \E chunk \in ProviderEvents : NextChunk(chunk)
    \/ StartUpdateBudget
    \/ StartTrackCache
    \/ StartYieldUsage
    \/ DeltaYieldUsage
    \/ BlockYieldSeparator
    \/ BlockYieldText
    \/ DeltaYieldText
    \/ Resume
    \/ Abandon
    \/ StreamEnd
    \/ StreamFail
    \/ \E h \in Histories : PrepareCall(h)

Spec == Init /\ [][Next]_vars

\* the synchronous steps of the generator between two suspension points
GeneratorStep ==
    \/ StartUpdateBudget
    \/ StartTrackCache
    \/ StartYieldUsage
    \/ DeltaYieldUsage
    \/ BlockYieldSeparator
    \/ BlockYieldText
    \/ DeltaYieldText

\* one call on a fresh coordinator, every kind of provider event
CallNext ==
    \/ CheckTruncation
    \/ IssueRequest
    \/ \E chunk \in ProviderEvents : NextChunk(chunk)
    \/ GeneratorStep
    \/ Resume
    \/ Abandon
    \/ StreamEnd
    \/ StreamFail

CallSpec == Init /\ [][CallNext]_vars

\* one call that ends normally: the stream never throws and the caller
\* iterates to the end
NormalNext ==
    \/ CheckTruncation
    \/ IssueRequest
    \/ \E chunk \in ProviderEvents : NextChunk(chunk)
    \/ GeneratorStep
    \/ Resume
    \/ StreamEnd

NormalStreamStep ==
    \/ StreamEnd
    \/ \E chunk \in ProviderEvents : NextChunk(chunk)

\* a coordinator configured with a model id of the table
NormalInit == Init /\ apiModelId \in DOMAIN anthropicModels

\* the generator runs on to its next suspension point, the caller asks for
\* the next event, and the finite stream answers every read
NormalSpec ==
    /\ NormalInit
    /\ [][NormalNext]_vars
    /\ WF_vars(GeneratorStep) /\ WF_vars(Resume) /\ WF_vars(NormalStreamStep)

\* the events that reach the ledgers, and one that does not
LedgerEvents ==
    { c \in ProviderEvents :
        \/ c.type = "message_start" /\ c.usage.cacheWrite > 0
        \/ c.type = "message_stop" }

\* several calls on one coordinator, the streams reduced to LedgerEvents
SessionNext ==
    \/ CheckTruncation
    \/ IssueRequest
    \/ \E chunk \in LedgerEvents : NextChunk(chunk)
    \/ StartUpdateBudget
    \/ StartTrackCache
    \/ StartYieldUsage
    \/ Resume
    \/ Abandon
    \/ StreamEnd
    \/ StreamFail
    \/ \E h \in Histories : PrepareCall(h)

\* a coordinator configured with a model id of the table or with an id
\* that is no property of the table
SessionInit == Init /\ apiModelId \in DOMAIN anthropicModels \cup { "unknown-model" }

SessionSpec == SessionInit /\ [][SessionNext]_vars

\* three and more calls on one coordinator: two histories, one of them long
\* enough to be cut, and the streams reduced to LedgerEvents
CarryHistories == { LongHistory(6), LongHistory(2) }

CarryInit ==
    /\ Init
    /\ apiModelId \in DOMAIN anthropicModels
    /\ history \in CarryHistories

CarryNext ==
    \/ CheckTruncation
    \/ IssueRequest
    \/ \E chunk \in LedgerEvents : NextChunk(chunk)
    \/ StartUpdateBudget
    \/ StartTrackCache
    \/ StartYieldUsage
    \/ Resume
    \/ Abandon
    \/ StreamEnd
    \/ StreamFail
    \/ \E h \in CarryHistories : PrepareCallUpTo(h, MaxDispatches)

CarrySpec == CarryInit /\ [][CarryNext]_vars

----------------------------------------------------------------------------
(* The two ledgers driven through their public methods by a caller that   *)
(* holds them directly, up to MaxOps calls.                               *)

\* the model profiles a TokenBudgetService is constructed for: every price
\* present, the cache prices absent, the output price absent, nothing
\* present, and a small window whose 85 % is not a whole number
Profiles ==
    { anthropicModels[anthropicDefaultModelId],
      [anthropicModels[anthropicDefaultModelId] EXCEPT !.cacheWritesPrice = 0,
                                                      !.cacheReadsPrice = 0],
      [anthropicModels[anthropicDefaultModelId] EXCEPT !.outputPrice = 0],
      NoProfile,
      [contextWindow |-> 1001, maxTokens |-> 8192, inputPrice |-> 100,
       outputPrice |-> 500, cacheWritesPrice |-> 125, cacheReadsPrice |-> 10] }

\* << inputTokens, outputTokens, cacheReads, cacheWrites >>, 0 for an
\* optional argument left out
UpdateArgs == { << 100, 50, 0, 0 >>, << 100, 50, 500, 200 >>,
                << 180000, 0, 500, 0 >>, << 900, 0, 0, 200 >>,
                << 169850, 0, 0, 0 >> }

\* << cacheReadTokens, cacheWriteTokens, inputTokens, baseInputPrice,
\*    cacheReadPrice >>
TrackArgs == { << 500, 0, 1000, 300, 30 >>, << 500, 200, 1000, 300, 30 >>,
               << 0, 200, 1000, 300, 30 >>, << 0, 0, 1000, 300, 30 >>,
               << 500, 0, 400, 300, 30 >>, << 500, 0, 1000, 100, 400 >> }

\* << inputTokens, estimatedOutputTokens >>
AccommodateArgs == { << 190000, 5000 >>, << 198000, 5000 >>, << 190000, 5904 >> }

\* what a caller may assign to a field of an object it was handed
WrittenValue == 7

LedgerInit ==
    /\ apiModelId = anthropicDefaultModelId
    /\ profile \in Profiles
    /\ budget = initializeBudget(profile)
    /\ metrics = initialMetrics
    /\ pc = "None"
    /\ susp = FALSE
    /\ history = << >>
    /\ working = << >>
    /\ request = << >>
    /\ consumed = << >>
    /\ emitted = << >>
    /\ obs = obs0
    /\ IdleTruncator
    /\ NoProbe
    /\ IdleWriter

Called(op, args, ret) ==
    /\ last.n < MaxOps
    /\ last' = [n |-> last.n + 1, op |-> op, prev |-> last.op,
                 args |-> args, ret |-> ret]
    /\ UNCHANGED << apiModelId, pc, susp, history, working, request,
                    consumed, emitted, profile >>
    /\ UNCHANGED truncVars
    /\ UNCHANGED writerVars

CallUpdateUsage(a) ==
    /\ budget' = updateUsage(budget, a[1], a[2], a[3], a[4])
    /\ obs' = [obs EXCEPT !.updates = @ + 1, !.sumIn = @ + a[1],
                          !.sumOut = @ + a[2], !.sumReads = @ + a[3],
                          !.sumWrites = @ + a[4]]
    /\ Called("updateUsage", << a[1], a[2], a[3], a[4], 0 >>, 0)
    /\ UNCHANGED << metrics, snapB, snapM >>

CallCanAccommodateTokens(a) ==
    /\ Called("canAccommodateTokens", << a[1], a[2], 0, 0, 0 >>,
              canAccommodateTokens(budget, profile, a[1], a[2]))
    /\ UNCHANGED << budget, metrics, obs, snapB, snapM >>

\* getTokenUtilization, as << numerator, denominator >>
CallGetTokenUtilization ==
    /\ Called("getTokenUtilization", NoArgs,
              << budget.totalUsedTokens, contextWindowOf(profile) >>)
    /\ UNCHANGED << budget, metrics, obs, snapB, snapM >>

CallShouldTruncateHistory ==
    /\ Called("shouldTruncateHistory", NoArgs, shouldTruncateHistory(budget, profile))
    /\ UNCHANGED << budget, metrics, obs, snapB, snapM >>

\* variant: taking a snapshot is itself counted as usage
CallGetRemainingBudgetCounting ==
    /\ snapB' = [taken |-> TRUE, obj |-> getRemainingBudget(budget),
                 was |-> BudgetView(budget, budget)]
    /\ budget' = [budget EXCEPT !.totalUsedTokens = @ + 1]
    /\ Called("getRemainingBudget", NoArgs, 0)
    /\ UNCHANGED << metrics, obs, snapM >>

\* getRemainingBudget; the caller keeps the object, and `was' is what the
\* caller read in it on receiving it (and wrote to it since)
CallGetRemainingBudget ==
    /\ snapB' = [taken |-> TRUE, obj |-> getRemainingBudget(budget),
                 was |-> BudgetView(budget, budget)]
    /\ Called("getRemainingBudget", NoArgs, 0)
    /\ UNCHANGED << budget, metrics, obs, snapM >>

CallEstimateCost ==
    /\ Called("estimateCost", NoArgs, estimateCost(budget, profile))
    /\ UNCHANGED << budget, metrics, obs, snapB, snapM >>

CallTrackCacheUsage(a) ==
    /\ metrics' = trackCacheUsage(metrics, a[1], a[2], a[3], a[4], a[5])
    /\ obs' = [obs EXCEPT !.tracks = @ + 1,
                          !.hits = @ + (IF a[1] > 0 THEN 1 ELSE 0),
                          !.misses = @ + (IF a[1] = 0 /\ a[2] > 0 THEN 1 ELSE 0),
                          !.twin = trackCacheUsage(@, a[1], a[2], a[3], a[4], a[5])]
    /\ Called("trackCacheUsage", a, 0)
    /\ UNCHANGED << budget, snapB, snapM >>

CallGetEfficiencyMetrics ==
    /\ Called("getEfficiencyMetrics", NoArgs, getEfficiencyMetrics(metrics))
    /\ UNCHANGED << budget, metrics, obs, snapB, snapM >>

CallGetDetailedMetrics ==
    /\ snapM' = [taken |-> TRUE, obj |-> getDetailedMetrics(metrics),
                 was |-> getDetailedMetrics(metrics)]
    /\ Called("getDetailedMetrics", NoArgs, 0)
    /\ UNCHANGED << budget, metrics, obs, snapB >>

\* reset; obs.twin is a CacheMonitor constructed at this moment, given the
\* same trackCacheUsage calls from here on
CallReset ==
    /\ metrics' = reset(metrics)
    /\ obs' = [obs EXCEPT !.resets = @ + 1, !.twin = initialMetrics]
    /\ Called("reset", NoArgs, 0)
    /\ UNCHANGED << budget, snapB, snapM >>

\* the caller assigns to a field of an object it was handed: a number of
\* the TokenBudget object, a field of the object its cacheTokens refers to
\* (the ledger's own), or a number of the CacheMetrics object
CallerWrites(field) ==
    /\ \/ /\ field = "totalUsedTokens"
          /\ snapB.taken
          /\ snapB' = [snapB EXCEPT !.obj.totalUsedTokens = WrittenValue,
                                    !.was.totalUsedTokens = WrittenValue]
          /\ UNCHANGED << budget, snapM, obs >>
       \/ /\ field = "cacheTokens.reads"
          /\ snapB.taken
          /\ budget' = [budget EXCEPT !.reads = WrittenValue]
          /\ snapB' = [snapB EXCEPT !.was.reads = WrittenValue]
          /\ obs' = [obs EXCEPT !.aliasWrites = @ + 1]
          /\ UNCHANGED snapM
       \/ /\ field = "hits"
          /\ snapM.taken
          /\ snapM' = [snapM EXCEPT !.obj.hits = WrittenValue,
                                    !.was.hits = WrittenValue]
          /\ UNCHANGED << budget, snapB, obs >>
    /\ Called("write", NoArgs, 0)
    /\ UNCHANGED metrics

WritableFields == { "totalUsedTokens", "cacheTokens.reads", "hits" }

LedgerNext ==
    \/ \E a \in UpdateArgs : CallUpdateUsage(a)
    \/ \E a \in AccommodateArgs : CallCanAccommodateTokens(a)
    \/ CallGetTokenUtilization
    \/ CallShouldTruncateHistory
    \/ CallGetRemainingBudget
    \/ CallEstimateCost
    \/ \E a \in TrackArgs : CallTrackCacheUsage(a)
    \/ CallGetEfficiencyMetrics
    \/ CallGetDetailedMetrics
    \/ CallReset
    \/ \E f \in WritableFields : CallerWrites(f)

LedgerSpec == LedgerInit /\ [][LedgerNext]_vars

----------------------------------------------------------------------------
(* services/large-file: ChunkManager (unnamed/part_001, the class at      *)
(* lines 120-266).  A string is the sequence of the chunk texts it is     *)
(* made of; a chunk is its marker, its text without the marker, and the   *)
(* number of lines of that text.                                           *)

ChunkInputs ==
    { [marker |-> "INIT", text |-> "a", lines |-> 1],
      [marker |-> "", text |-> "b", lines |-> 3],
      [marker |-> "FINAL", text |-> "c", lines |-> 1] }

\* new ChunkManager()
cmNew == [NoChunkManager EXCEPT !.defined = TRUE]

\* initialize; tempDir is assigned before mkdir, the rest after it
cmInitialize(cm, mkdirOk) ==
    IF mkdirOk
    THEN [cmNew EXCEPT !.tempDir = TRUE, !.isInitialized = TRUE]
    ELSE [cm EXCEPT !.tempDir = TRUE]

\* the guard of addChunk
cmReady(cm) == cm.tempDir /\ cm.isInitialized

\* addChunk, the manager's state after it
cmAddChunk(cm, c) ==
    LET isInit == c.marker = "INIT"
        isFinal == c.marker = "FINAL"
        n == Len(cm.chunks) + 1
        processed == (IF isInit THEN 0 ELSE cm.processedLines) + c.lines
        total0 == IF isInit THEN 0 ELSE cm.totalFileLines
        total1 == IF n = 1 THEN c.lines * 3
                  ELSE IF ~isInit /\ ~isFinal /\ c.lines * n * 10 > 8 * processed
                  THEN Max(total0, (3 * processed + 1) \div 2)
                  ELSE total0
    IN  [cm EXCEPT !.chunks = Append(@, c.text),
                   !.combinedContent = Append(@, c.text),
                   !.chunkFiles = @ + 1,
                   !.lastChunkSize = c.lines,
                   !.processedLines = processed,
                   !.averageChunkSize = IF n = 1 THEN << c.lines, 1 >> ELSE << processed, n >>,
                   !.totalFileLines = IF isFinal THEN processed ELSE total1,
                   !.isFinalChunkReceived = IF isInit THEN FALSE
                                            ELSE IF isFinal THEN TRUE ELSE @]

----------------------------------------------------------------------------
(* services/large-file/LargeFileWriter.ts, one writer and one target      *)
(* file.  path.resolve(cwd, "") is cwd itself, a directory.               *)

RelPaths == { "", "a.txt" }

NotInitialized == "LargeFileWriter not initialized"
ProviderNotSet == "DiffViewProvider not set"
ManagerNotInitialized == "ChunkManager not initialized"

\* the claim's two situations: before the first initializeWrite call or
\* after a completed save, revert or reset ("never", "closed"), and after
\* an initializeWrite call ("open")
Ended(op, outcome, phase) == [op |-> op, outcome |-> outcome, phase |-> phase]

WriterInit ==
    /\ IdleCoordinator
    /\ IdleTruncator
    /\ profile = NoProfile
    /\ NoProbe
    /\ lfw = NewWriter
    /\ disk \in { [exists |-> FALSE, content |-> << >>, orphans |-> 0],
                  [exists |-> TRUE, content |-> << "o" >>, orphans |-> 0] }
    /\ wcall = Ended("none", "none", "never")

Frame ==
    /\ UNCHANGED coordVars
    /\ UNCHANGED truncVars
    /\ UNCHANGED probeVars

\* cleanup (lines 154-159), the writer's fields after it; the manager's own
\* cleanup removes its chunk files and temp directory and cannot throw
cleanup(w) ==
    IF w.chunkManager.defined
    THEN [w EXCEPT !.chunkManager = NoChunkManager]
    ELSE w

\* the temp directory of a manager that is dropped without cleanup stays
Orphaned(cm) == IF cm.defined /\ cm.tempDir THEN 1 ELSE 0

setDiffViewProvider ==
    /\ lfw' = [lfw EXCEPT !.diffViewProvider = [set |-> TRUE, editType |-> "undefined"]]
    /\ wcall' = Ended("setDiffViewProvider", "ok", wcall.phase)
    /\ UNCHANGED disk
    /\ Frame

initializeWrite(relPath) ==
    /\ IF ~lfw.diffViewProvider.set
       THEN /\ wcall' = Ended("initializeWrite", ProviderNotSet, "open")
            /\ UNCHANGED << lfw, disk >>
       ELSE IF relPath = ""
       THEN \* fs.access of cwd succeeds, readFile of a directory throws
            /\ lfw' = [lfw EXCEPT !.relPath = [set |-> TRUE, val |-> relPath],
                                  !.diffViewProvider.editType = "modify"]
            /\ wcall' = Ended("initializeWrite", "EISDIR", "open")
            /\ UNCHANGED disk
       ELSE \E documentWasOpen \in BOOLEAN, mkdirOk \in BOOLEAN :
            /\ disk.orphans + Orphaned(lfw.chunkManager) <= MaxOrphans
            /\ lfw' = [lfw EXCEPT
                         !.relPath = [set |-> TRUE, val |-> relPath],
                         !.diffViewProvider.editType =
                             IF disk.exists THEN "modify" ELSE "create",
                         !.originalContent =
                             [set |-> TRUE,
                              val |-> IF disk.exists THEN disk.content ELSE << >>],
                         !.createdDirs = IF disk.exists THEN @ ELSE << >>,
                         !.documentWasOpen = documentWasOpen,
                         !.chunkManager = cmInitialize(cmNew, mkdirOk),
                         !.isEditing = IF mkdirOk THEN TRUE ELSE @]
            /\ disk' = [exists |-> TRUE,
                        content |-> IF disk.exists THEN disk.content ELSE << >>,
                        orphans |-> disk.orphans + Orphaned(lfw.chunkManager)]
            /\ wcall' = Ended("initializeWrite", IF mkdirOk THEN "ok" ELSE "EIO", "open")
    /\ Frame

addChunk(content) ==
    /\ IF ~lfw.chunkManager.defined
       THEN /\ wcall' = Ended("addChunk", NotInitialized, wcall.phase)
            /\ UNCHANGED lfw
       ELSE IF ~lfw.diffViewProvider.set
       THEN /\ wcall' = Ended("addChunk", ProviderNotSet, wcall.phase)
            /\ UNCHANGED lfw
       ELSE IF ~cmReady(lfw.chunkManager)
       THEN /\ wcall' = Ended("addChunk", ManagerNotInitialized, wcall.phase)
            /\ UNCHANGED lfw
       ELSE /\ Len(lfw.chunkManager.chunks) < MaxChunks
            /\ lfw' = [lfw EXCEPT !.chunkManager = cmAddChunk(@, content)]
            /\ wcall' = Ended("addChunk", "ok", wcall.phase)
    /\ UNCHANGED disk
    /\ Frame

getCurrentContent ==
    /\ wcall' = Ended("getCurrentContent",
                      IF lfw.chunkManager.defined THEN "ok" ELSE NotInitialized,
                      wcall.phase)
    /\ UNCHANGED << lfw, disk >>
    /\ Frame

save(writeOk) ==
    /\ IF ~lfw.relPath.set \/ lfw.relPath.val = "" \/ ~lfw.chunkManager.defined
       THEN /\ wcall' = Ended("save", NotInitialized, wcall.phase)
            /\ UNCHANGED << lfw, disk >>
       ELSE IF ~writeOk
       THEN /\ wcall' = Ended("save", "EIO", wcall.phase)
            /\ UNCHANGED << lfw, disk >>
       ELSE /\ disk' = [disk EXCEPT !.exists = TRUE,
                                    !.content = lfw.chunkManager.combinedContent]
            /\ lfw' = cleanup(lfw)
            /\ wcall' = Ended("save", "ok", "closed")
    /\ Frame

revert(writeOk) ==
    /\ IF ~lfw.relPath.set \/ lfw.relPath.val = ""
       THEN /\ wcall' = Ended("revert", "ok", "closed")
            /\ UNCHANGED << lfw, disk >>
       ELSE IF lfw.diffViewProvider.set /\ lfw.diffViewProvider.editType = "create"
       THEN /\ disk' = [disk EXCEPT !.exists = FALSE, !.content = << >>]
            /\ lfw' = cleanup(lfw)
            /\ wcall' = Ended("revert", "ok", "closed")
       ELSE IF lfw.originalContent.set /\ ~writeOk
       THEN /\ wcall' = Ended("revert", "EIO", wcall.phase)
            /\ UNCHANGED << lfw, disk >>
       ELSE /\ disk' = IF lfw.originalContent.set
                       THEN [disk EXCEPT !.exists = TRUE,
                                         !.content = lfw.originalContent.val]
                       ELSE disk
            /\ lfw' = cleanup(lfw)
            /\ wcall' = Ended("revert", "ok", "closed")
    /\ Frame

\* reset (lines 164-171); CacheMonitor.reset is the operator `reset'
resetWriter ==
    /\ lfw' = cleanup([lfw EXCEPT !.isEditing = FALSE,
                                  !.originalContent = Unset,
                                  !.createdDirs = << >>,
                                  !.documentWasOpen = FALSE,
                                  !.relPath = [set |-> FALSE, val |-> ""]])
    /\ wcall' = Ended("reset", "ok", "closed")
    /\ UNCHANGED disk
    /\ Frame

WriterNext ==
    \/ setDiffViewProvider
    \/ \E relPath \in RelPaths : initializeWrite(relPath)
    \/ \E content \in ChunkInputs : addChunk(content)
    \/ getCurrentContent
    \/ \E writeOk \in BOOLEAN : save(writeOk)
    \/ \E writeOk \in BOOLEAN : revert(writeOk)
    \/ resetWriter

WriterSpec == WriterInit /\ [][WriterNext]_vars

----------------------------------------------------------------------------
(* Properties of the truncator (SpecTruncate) *)

\* C9: for a history of length L >= 1 and 0 <= minRetainCount <=
\* maxRetainCount, the result has at most 1 + maxRetainCount and at most L
\* elements, starts with history[0], holds only elements of the history, and
\* holds them in their original order, none twice.
C9_TruncateShape ==
    (tDone /\ Len(tMessages) >= 1) =>
        /\ Len(tResult) <= 1 + tOpts.maxRetainCount
        /\ Len(tResult) <= Len(tMessages)
        /\ Len(tResult) >= 1
        /\ tResult[1] = tMessages[1]
        /\ \A k \in 1..Len(tResult) :
              /\ tResult[k].id \in 1..Len(tMessages)
              /\ tResult[k] = tMessages[tResult[k].id]
        /\ \A j, k \in 1..Len(tResult) : j < k => tResult[j].id < tResult[k].id

\* a four-message history cut to three, the second message dropped
C9_Witness ==
    /\ tDone
    /\ Len(tMessages) = 4
    /\ Len(tResult) = 3
    /\ tResult[2].id = 3
    /\ tResult[3].id = 4

\* the score the code gives the message at position p of the history (p >= 2)
ScoreAt(p) ==
    calculateMessageScore(tMessages[p], p - 2, Len(tMessages) - 1, tOpts)

\* clamp(floor(L * 0.5), minRetainCount, maxRetainCount)
ClampedRetain ==
    LET half == Len(tMessages) \div 2
    IN  IF half < tOpts.minRetainCount THEN tOpts.minRetainCount
        ELSE IF half > tOpts.maxRetainCount THEN tOpts.maxRetainCount
        ELSE half

KeptPositions == { tResult[k].id : k \in 2..Len(tResult) }

\* C11: for L >= 2 the first message is kept unscored, and of the other L-1
\* exactly the min(retainCount, L-1) highest-scoring are kept, the earlier of
\* two equal scores first; no dropped candidate outscores a kept one.
C11_TopScoresKept ==
    (tDone /\ Len(tMessages) >= 2) =>
        /\ tResult[1] = tMessages[1]
        /\ KeptPositions \subseteq 2..Len(tMessages)
        /\ Cardinality(KeptPositions) = Min(ClampedRetain, Len(tMessages) - 1)
        /\ Len(tResult) = 1 + Cardinality(KeptPositions)
        /\ \A d \in (2..Len(tMessages)) \ KeptPositions :
              \A r \in KeptPositions :
                 \/ ScoreAt(d) < ScoreAt(r)
                 \/ ScoreAt(d) = ScoreAt(r) /\ r < d

\* two candidates of equal score compete for the last place: the earlier
\* one (position 2) is kept, the later one (position 5) dropped
C11_Witness ==
    /\ tDone
    /\ Len(tMessages) = 5
    /\ ScoreAt(2) = ScoreAt(5)
    /\ 2 \in KeptPositions
    /\ 5 \notin KeptPositions
    /\ Cardinality(KeptPositions) = 2

\* C10: a history of length L <= 1, the empty one included, comes back
\* unchanged.
C10_ShortUnchanged ==
    (tDone /\ Len(tMessages) <= 1) => tResult = tMessages

----------------------------------------------------------------------------
(* Properties of the coordinator (CallSpec, SessionSpec, NormalSpec) *)

IsStart(c) == c.type = "message_start"
IsDelta(c) == c.type = "message_delta"
IsTextStart(c) == c.type = "content_block_start" /\ c.sub = "text"
IsTextDelta(c) == c.type = "content_block_delta" /\ c.sub = "text_delta"
IsOther(c) == ~(IsStart(c) \/ IsDelta(c) \/ IsTextStart(c) \/ IsTextDelta(c))

\* the positions in emitted of the events that come from provider event k
EmittedFrom(k) == { p \in 1..Len(emitted) : emitted[p].from = k }

\* provider event k has been handled to the end
Handled(k) ==
    /\ k \in 1..Len(consumed)
    /\ k < Len(consumed) \/ pc \in { "Await", "Drained", "Failed" }

\* C1: every start event is forwarded once to updateUsage and once to
\* trackCacheUsage, both before its usage event is emitted; one usage event
\* is emitted per start event; after n start events the ledgers hold n
\* updates.
C1_StartForwardedOnce ==
    /\ obs.updates = obs.starts - (IF pc = "StartBudget" THEN 1 ELSE 0)
    /\ obs.tracks = obs.starts - (IF pc \in { "StartBudget", "StartCache" } THEN 1 ELSE 0)
    /\ \A k \in 1..Len(consumed) :
          IsStart(consumed[k]) =>
             /\ Cardinality(EmittedFrom(k)) <= 1
             /\ Handled(k) => Cardinality(EmittedFrom(k)) = 1
             /\ \A p \in EmittedFrom(k) :
                   /\ emitted[p].type = "usage"
                   /\ emitted[p].inputTokens = consumed[k].usage.input
                   /\ emitted[p].outputTokens = consumed[k].usage.output
                   /\ emitted[p].cacheReadTokens = consumed[k].usage.cacheRead
                   /\ emitted[p].cacheWriteTokens = consumed[k].usage.cacheWrite
             \* emitted only once both ledgers have been updated
             /\ (EmittedFrom(k) # {} /\ k = Len(consumed)) =>
                   (obs.updates = obs.starts /\ obs.tracks = obs.starts)
    /\ pc = "StartYield" => (obs.updates = obs.starts /\ obs.tracks = obs.starts
                             /\ EmittedFrom(Len(consumed)) = {})
    /\ pc \notin { "StartBudget" } =>
          /\ budget.totalUsedTokens = obs.sumIn + obs.sumOut
          /\ budget.availableInputTokens =
                initializeBudget(modelInfo).availableInputTokens - obs.sumIn
          /\ budget.reads = obs.sumReads
          /\ budget.writes = obs.sumWrites
    /\ pc \notin { "StartBudget", "StartCache" } =>
          /\ metrics.hits = obs.hits
          /\ metrics.misses = obs.misses
          /\ metrics.readTokens = obs.sumReads

\* two start events handled in one call
C1_Witness ==
    /\ Len(consumed) = 2
    /\ IsStart(consumed[1]) /\ IsStart(consumed[2])
    /\ consumed[1] # consumed[2]
    /\ pc = "Await"
    /\ Len(emitted) = 2
    /\ obs.updates = 2 /\ obs.tracks = 2

\* C2: a delta usage event with output-token count d makes totalUsedTokens
\* grow by d, leaves availableInputTokens alone, and one usage event with
\* inputTokens = 0 and outputTokens = d is emitted.
C2_DeltaForwarded ==
    /\ pc \in { "Await", "Drained", "Failed", "Abandoned" } =>
          /\ budget.totalUsedTokens = obs.sumIn + obs.sumOut + obs.sumDelta
          /\ budget.availableInputTokens =
                initializeBudget(modelInfo).availableInputTokens - obs.sumIn
    /\ \A k \in 1..Len(consumed) :
          (IsDelta(consumed[k]) /\ Handled(k)) =>
             /\ Cardinality(EmittedFrom(k)) = 1
             /\ \A p \in EmittedFrom(k) :
                   /\ emitted[p].type = "usage"
                   /\ emitted[p].inputTokens = 0
                   /\ emitted[p].outputTokens = consumed[k].usage.output

\* the ledger was over the limit when the call was dispatched
OverAtDispatch ==
    obs.preTotal * 100 > maxInputUtilization * contextWindowOf(modelInfo)

\* C3: the working history is truncate(history) exactly when shouldTruncate()
\* held at dispatch; the decision is taken once per call, before the request
\* and before any provider event, and never again while streaming.
C3_TruncateDecidedOnce ==
    pc # "Idle" =>
        /\ obs.checks = 1
        /\ obs.truncs = IF OverAtDispatch THEN 1 ELSE 0
        /\ working = IF OverAtDispatch
                     THEN improvedTruncateConversation(history, defaultOptions)
                     ELSE history
        /\ obs.preTotal <= budget.totalUsedTokens
        /\ pc = "Preflight" => (obs.requests = 0 /\ request = << >> /\ consumed = << >>)
        /\ (obs.requests > 0 \/ consumed # << >>) => pc # "Preflight"

\* not over the limit at dispatch, over it mid-stream, history long enough to
\* be cut, and still whole
C3_Witness ==
    /\ pc = "Await"
    /\ Len(consumed) = 2
    /\ ~OverAtDispatch
    /\ budget.totalUsedTokens * 100 > maxInputUtilization * contextWindowOf(modelInfo)
    /\ Len(history) >= 6
    /\ Len(improvedTruncateConversation(history, defaultOptions)) < Len(history)
    /\ working = history
    /\ obs.truncs = 0

\* C4: after a failure or an abandoned iteration the ledgers hold exactly the
\* updates of the start events observed; nothing is rolled back, nothing
\* unobserved is applied, and there is no retry.
C4_PartialAccounting ==
    pc \in { "Failed", "Abandoned" } =>
        /\ obs.updates = obs.starts
        /\ obs.tracks = obs.starts
        /\ budget.totalUsedTokens = obs.sumIn + obs.sumOut
        /\ budget.availableInputTokens =
              initializeBudget(modelInfo).availableInputTokens - obs.sumIn
        /\ budget.reads = obs.sumReads
        /\ budget.writes = obs.sumWrites
        /\ metrics.hits = obs.hits
        /\ metrics.misses = obs.misses
        /\ metrics.readTokens = obs.sumReads
        /\ obs.requests <= 1
        /\ ~susp

\* the stream fails after a start event and one more event
C4_Witness ==
    /\ pc = "Failed"
    /\ Len(consumed) = 2
    /\ IsStart(consumed[1])
    /\ budget.totalUsedTokens > 0
    /\ metrics.hits + metrics.misses > 0

UserPositions(msgs) == { k \in 1..Len(msgs) : msgs[k].role = "user" }

\* the positions of the last min(2, number of user messages) user messages
LastTwoUsers(msgs) ==
    { k \in UserPositions(msgs) :
        Cardinality({ j \in UserPositions(msgs) : j > k }) < 2 }

Marked(req) == { k \in 1..Len(req) : req[k].mark > 0 }

RequestIssued == obs.requests = 1

\* the caller's array changes only when the caller takes up its next call
CallerKeepsHistory == [][history' # history => (pc \in Terminal /\ pc' = "Idle")]_vars

C6_Separator ==
    /\ \A p \in 1..Len(emitted) :
          (emitted[p].type = "text" /\ emitted[p].text = "\n") =>
             LET k == emitted[p].from
             IN  /\ IsTextStart(consumed[k])
                 /\ consumed[k].index > 0
                 /\ \A q \in EmittedFrom(k) : q >= p
                 /\ p < Len(emitted) =>
                       emitted[p + 1] = TextEvent(consumed[k].text, k)
    /\ \A k \in 1..Len(consumed) :
          Handled(k) =>
             /\ (IsTextStart(consumed[k]) /\ consumed[k].index > 0) =>
                   [i \in 1..Cardinality(EmittedFrom(k)) |->
                       emitted[(CHOOSE p \in EmittedFrom(k) : \A q \in EmittedFrom(k) : p <= q)
                               + i - 1].text]
                     = << "\n", consumed[k].text >>
             /\ ((IsTextStart(consumed[k]) /\ consumed[k].index = 0) \/ IsTextDelta(consumed[k])) =>
                   /\ Cardinality(EmittedFrom(k)) = 1
                   /\ \A p \in EmittedFrom(k) : emitted[p] = TextEvent(consumed[k].text, k)

\* a text block of index 1 and a later fragment: separator, text, text
C6_Witness ==
    /\ Len(consumed) = 2
    /\ IsTextStart(consumed[1]) /\ consumed[1].index = 1
    /\ IsTextDelta(consumed[2])
    /\ Len(emitted) = 3
    /\ emitted[1].text = "\n"
    /\ emitted[3].text = "b"

\* C7: an event that is neither start usage, delta usage, text block start
\* nor text delta emits nothing, changes no ledger, raises no error, and the
\* generator goes on to the next event.
C7_OtherEventsNoOp ==
    [][(Len(consumed') = Len(consumed) + 1 /\ IsOther(consumed'[Len(consumed')])) =>
         /\ pc' = "Await"
         /\ susp' = susp
         /\ emitted' = emitted
         /\ budget' = budget
         /\ metrics' = metrics]_vars

\* an ignored event, then a text fragment
C7_Witness ==
    /\ Len(consumed) = 2
    /\ IsOther(consumed[1])
    /\ consumed[1].type = "content_block_start"
    /\ IsTextDelta(consumed[2])
    /\ Len(emitted) = 1
    /\ emitted[1].from = 2

\* C8: for a finite provider sequence that ends normally, the normalized
\* events of provider event i come before those of event j for i < j, a
\* provider event gives at most two of them, and the call reaches Drained,
\* after which nothing more is emitted.
C8_OrderedAndFinite ==
    /\ [](/\ \A p \in 1..Len(emitted) : emitted[p].from \in 1..Len(consumed)
          /\ \A p, q \in 1..Len(emitted) : p < q => emitted[p].from <= emitted[q].from
          /\ \A k \in 1..Len(consumed) : Cardinality(EmittedFrom(k)) <= 2
          /\ pc = "Drained" =>
                /\ ~susp
                /\ \A k \in 1..Len(consumed) :
                      IsOther(consumed[k]) <=> EmittedFrom(k) = {})
    /\ [][pc = "Drained" => (emitted' = emitted \/ pc' = "Idle")]_vars
    /\ (pc = "Await") ~> (pc = "Drained")

\* a drained call that emitted the events of two provider events in order
C8_Witness ==
    /\ pc = "Drained"
    /\ Len(consumed) = 2
    /\ Len(emitted) = 3
    /\ emitted[1].from = 1
    /\ emitted[2].from = 2
    /\ emitted[3].from = 2

----------------------------------------------------------------------------
(* Properties of the token ledger, under LedgerSpec *)

\* C12: after any sequence of updateUsage calls on a freshly constructed
\* TokenBudgetService, totalUsedTokens is the sum of all inputTokens +
\* outputTokens, availableInputTokens is floor(contextWindow * 0.85) minus
\* the sum of all inputTokens, below zero when that is so, the cache
\* counters are the sums of the cacheReads and cacheWrites supplied (reads
\* as long as no caller wrote to it), reservedOutputTokens stays what the
\* constructor set, and no step lowers totalUsedTokens.
C12_UsageSums ==
    /\ [](/\ budget.totalUsedTokens = obs.sumIn + obs.sumOut
          /\ budget.availableInputTokens =
                 (contextWindowOf(profile) * maxInputUtilization) \div 100 - obs.sumIn
          /\ budget.writes = obs.sumWrites
          /\ obs.aliasWrites = 0 => budget.reads = obs.sumReads
          /\ budget.reservedOutputTokens = outputTokenBuffer)
    /\ [][/\ budget'.totalUsedTokens >= budget.totalUsedTokens
          /\ budget'.reservedOutputTokens = budget.reservedOutputTokens]_vars

C12_Witness ==
    /\ last.op = "updateUsage"
    /\ obs.updates >= 2
    /\ obs.aliasWrites = 0
    /\ profile.contextWindow = 1001
    /\ budget.availableInputTokens < 0
    /\ budget.reads = 1000
    /\ budget.writes = 200

\* the cost by the documented formula, in units of 1e-8 dollars
FormulaCost ==
    budget.totalUsedTokens * profile.inputPrice
        + (budget.reads * profile.cacheReadsPrice + budget.writes * profile.cacheWritesPrice)

\* C13: estimateCost returns 0 whenever inputPrice, cacheReadsPrice or
\* cacheWritesPrice is absent from the model profile, in every ledger state,
\* and otherwise totalUsedTokens * inputPrice / 1e6 + (reads * cacheReadsPrice
\* + writes * cacheWritesPrice) / 1e6.
C13_CostByFormulaOrZero ==
    last.op = "estimateCost" =>
        last.ret = IF \/ profile.inputPrice = 0
                      \/ profile.cacheReadsPrice = 0
                      \/ profile.cacheWritesPrice = 0
                   THEN 0
                   ELSE FormulaCost

----------------------------------------------------------------------------
(* Properties of the objects the ledgers hand out, under LedgerSpec *)

\* C14: an object returned by getRemainingBudget (its cacheTokens reads and
\* writes included) or by getDetailedMetrics keeps, whatever is called on
\* the ledger afterwards, the values its holder read or wrote in it, and a
\* write by the holder leaves the ledger's own state as it was.
C14_SnapshotIndependent ==
    /\ [](snapB.taken => BudgetView(snapB.obj, budget) = snapB.was)
    /\ [](snapM.taken => snapM.obj = snapM.was)
    /\ [][(last'.op = "write" /\ last'.n # last.n) =>
              (budget' = budget /\ metrics' = metrics)]_vars

Accessors == { "getRemainingBudget", "getDetailedMetrics", "getEfficiencyMetrics" }

\* C15: getRemainingBudget, getDetailedMetrics and getEfficiencyMetrics,
\* called any number of times, leave both ledgers and the model profile as
\* they were, so that every later method starts from the same state; and
\* of two getRemainingBudget (getDetailedMetrics) calls with nothing
\* between them the second returns field by field what the first did.
C15_AccessorsPure ==
    [][(last'.n # last.n /\ last'.op \in Accessors) =>
          /\ budget' = budget
          /\ metrics' = metrics
          /\ profile' = profile
          /\ (last.op = "getRemainingBudget" /\ last'.op = "getRemainingBudget") =>
                 BudgetView(snapB'.obj, budget') = BudgetView(snapB.obj, budget)
          /\ (last.op = "getDetailedMetrics" /\ last'.op = "getDetailedMetrics") =>
                 snapM'.obj = snapM.obj]_vars

C15_Witness ==
    /\ last.n = 3
    /\ last.op = "getRemainingBudget"
    /\ last.prev = "getRemainingBudget"
    /\ snapB.taken
    /\ snapB.obj.totalUsedTokens = 150
    /\ budget.totalUsedTokens = 150
    /\ budget.reads = 500

----------------------------------------------------------------------------
(* Properties of the cache ledger, under LedgerSpec *)

TrackStep == last'.n # last.n /\ last'.op = "trackCacheUsage"

\* C16: a trackCacheUsage call with cacheReadTokens > 0 is a hit, also when
\* cacheWriteTokens > 0: hits + 1, readTokens + cacheReadTokens,
\* totalTokensSaved + (inputTokens - cacheReadTokens), costSaved +
\* (inputTokens * baseInputPrice - cacheReadTokens * cacheReadPrice) / 1e6,
\* misses and writeTokens as before.  Otherwise with cacheWriteTokens > 0
\* it is a miss: misses + 1, writeTokens + cacheWriteTokens, the rest as
\* before.  Otherwise nothing changes.  hits + misses grows by at most 1.
C16_HitOrMiss ==
    [][TrackStep =>
          LET cr == last'.args[1]
              cw == last'.args[2]
              in == last'.args[3]
              bp == last'.args[4]
              cp == last'.args[5]
          IN  /\ cr > 0 =>
                    metrics' = [metrics EXCEPT
                                  !.hits = @ + 1,
                                  !.readTokens = @ + cr,
                                  !.totalTokensSaved = @ + (in - cr),
                                  !.costSaved = @ + (in * bp - cr * cp)]
              /\ (cr = 0 /\ cw > 0) =>
                    metrics' = [metrics EXCEPT !.misses = @ + 1,
                                               !.writeTokens = @ + cw]
              /\ (cr = 0 /\ cw = 0) => metrics' = metrics
              /\ metrics'.hits + metrics'.misses <= metrics.hits + metrics.misses + 1]_vars

C16_Witness ==
    /\ last.op = "trackCacheUsage"
    /\ last.args[1] > 0 /\ last.args[2] > 0
    /\ last.n = 3
    /\ metrics.hits = 2 /\ metrics.misses = 1
    /\ metrics.writeTokens = 200
    /\ metrics.readTokens = 1000
    /\ metrics.costSaved = 2 * (1000 * 300 - 500 * 30)

\* C17: no trackCacheUsage call with non-negative token counts lowers hits,
\* misses, totalTokensSaved, writeTokens or readTokens (costSaved may fall).
C17_CountersMonotone ==
    [][TrackStep =>
          /\ metrics'.hits >= metrics.hits
          /\ metrics'.misses >= metrics.misses
          /\ metrics'.totalTokensSaved >= metrics.totalTokensSaved
          /\ metrics'.writeTokens >= metrics.writeTokens
          /\ metrics'.readTokens >= metrics.readTokens]_vars

----------------------------------------------------------------------------
(* Properties of the constructor, under CallSpec *)

DefaultProfile == anthropicModels[anthropicDefaultModelId]

\* C18: for an apiModelId that is not a key of the model table, or is
\* missing, the coordinator resolves to the default id and profile, and the
\* TokenBudgetService it constructs works from the default profile, its
\* availableInputTokens being floor(default contextWindow * 0.85) until the
\* first updateUsage.
C18_UnknownIdFallsBack ==
    (pc # "None" /\ apiModelId \notin DOMAIN anthropicModels) =>
        /\ getModel(apiModelId) = [id |-> anthropicDefaultModelId, info |-> DefaultProfile]
        /\ profile = DefaultProfile
        /\ obs.updates = 0 =>
               budget.availableInputTokens =
                   (DefaultProfile.contextWindow * maxInputUtilization) \div 100

----------------------------------------------------------------------------
(* Properties of the over-budget state, under LedgerSpec *)

OverBudget == budget.availableInputTokens < 0

\* C19: in every state where availableInputTokens is below zero,
\* shouldTruncateHistory returns true, and updateUsage,
\* canAccommodateTokens, shouldTruncateHistory, getTokenUtilization and
\* getRemainingBudget can each be called and return.
C19_OverBudgetSurfaced ==
    /\ OverBudget => shouldTruncateHistory(budget, profile)
    /\ (OverBudget /\ last.op = "shouldTruncateHistory") => last.ret = TRUE
    /\ (OverBudget /\ last.n < MaxOps) =>
           /\ \A a \in UpdateArgs : ENABLED CallUpdateUsage(a)
           /\ \A a \in AccommodateArgs : ENABLED CallCanAccommodateTokens(a)
           /\ ENABLED CallShouldTruncateHistory
           /\ ENABLED CallGetTokenUtilization
           /\ ENABLED CallGetRemainingBudget

C19_Witness ==
    /\ OverBudget
    /\ last.op = "shouldTruncateHistory"
    /\ last.prev = "updateUsage"
    /\ last.ret = TRUE
    /\ budget.totalUsedTokens < contextWindowOf(profile)

----------------------------------------------------------------------------
(* Properties of CacheMonitor.reset, under LedgerSpec *)

ZeroEfficiency(e) ==
    /\ e.hitRate[1] = 0
    /\ e.tokenSavingsRate[1] = 0
    /\ e.costEfficiency[1] = 0

\* C20: right after reset all six metrics are zero, as in a CacheMonitor
\* just constructed, and getEfficiencyMetrics returns zero for every rate;
\* from then on the metrics are, after any trackCacheUsage calls, those of
\* a fresh CacheMonitor given the same calls.
C20_ResetRestoresFresh ==
    /\ last.op = "reset" =>
           /\ metrics = initialMetrics
           /\ ZeroEfficiency(getEfficiencyMetrics(metrics))
    /\ (last.op = "getEfficiencyMetrics" /\ last.prev = "reset") =>
           ZeroEfficiency(last.ret)
    /\ obs.resets > 0 => metrics = obs.twin

C20_Witness ==
    /\ obs.resets = 1
    /\ obs.hits = 2
    /\ last.op = "trackCacheUsage"
    /\ last.prev = "reset"
    /\ metrics.hits = 1
    /\ metrics.costSaved # 0

----------------------------------------------------------------------------
(* Properties of getEfficiencyMetrics, under LedgerSpec *)

\* C21: in every state of the cache ledger getEfficiencyMetrics divides by
\* no zero: hitRate is hits / (hits + misses), or 0 when hits + misses = 0;
\* tokenSavingsRate is totalTokensSaved / (readTokens + writeTokens), or 0
\* when that sum is 0; costEfficiency is costSaved / writeTokens, or 0 when
\* writeTokens = 0; and hitRate lies between 0 and 1.
C21_EfficiencyGuarded ==
    LET e == getEfficiencyMetrics(metrics)
    IN  /\ e.hitRate[2] # 0 /\ e.tokenSavingsRate[2] # 0 /\ e.costEfficiency[2] # 0
        /\ IF metrics.hits + metrics.misses = 0
           THEN e.hitRate[1] = 0
           ELSE e.hitRate = << metrics.hits, metrics.hits + metrics.misses >>
        /\ IF metrics.readTokens + metrics.writeTokens = 0
           THEN e.tokenSavingsRate[1] = 0
           ELSE e.tokenSavingsRate =
                    << metrics.totalTokensSaved, metrics.readTokens + metrics.writeTokens >>
        /\ IF metrics.writeTokens = 0
           THEN e.costEfficiency[1] = 0
           ELSE e.costEfficiency = << metrics.costSaved, metrics.writeTokens >>
        /\ 0 <= e.hitRate[1] /\ e.hitRate[1] <= e.hitRate[2]
        /\ last.op = "getEfficiencyMetrics" => last.ret = e

\* a hit and a miss, then the rates; and reads without any write
C21_Witness ==
    /\ last.op = "getEfficiencyMetrics"
    /\ metrics.hits = 1 /\ metrics.misses = 1
    /\ last.ret.hitRate = << 1, 2 >>
    /\ last.ret.tokenSavingsRate = << 500, 700 >>
    /\ last.ret.costEfficiency = << 1000 * 300 - 500 * 30, 200 >>

----------------------------------------------------------------------------
(* Properties of the token ledger's tests, under LedgerSpec *)

\* totalUsedTokens / contextWindow compared with 0.85, on whole numbers
UsedOverLimit ==
    budget.totalUsedTokens * 100 > maxInputUtilization * contextWindowOf(profile)
UsedAtLimit ==
    budget.totalUsedTokens * 100 = maxInputUtilization * contextWindowOf(profile)

\* C22: shouldTruncateHistory returns true exactly when totalUsedTokens /
\* contextWindow is strictly greater than 0.85, and false when it equals
\* 0.85; after two updateUsage(100, 50) on a 200000 window totalUsedTokens
\* is 300 and it returns false.
C22_TruncateAboveLimitOnly ==
    /\ shouldTruncateHistory(budget, profile) <=> UsedOverLimit
    /\ UsedAtLimit => ~shouldTruncateHistory(budget, profile)
    /\ last.op = "shouldTruncateHistory" => (last.ret <=> UsedOverLimit)
    /\ last.op = "getTokenUtilization" =>
           last.ret = << budget.totalUsedTokens, contextWindowOf(profile) >>
    /\ (/\ obs.updates = 2 /\ obs.sumIn = 200 /\ obs.sumOut = 100
        /\ profile.contextWindow = 200000) =>
           (budget.totalUsedTokens = 300 /\ ~shouldTruncateHistory(budget, profile))

\* exactly at the limit: 170000 of 200000 used, and the answer is false
C22_Witness ==
    /\ last.op = "shouldTruncateHistory"
    /\ last.prev = "updateUsage"
    /\ budget.totalUsedTokens = 170000
    /\ profile.contextWindow = 200000
    /\ UsedAtLimit
    /\ last.ret = FALSE

\* C23: canAccommodateTokens(inputTokens, estimatedOutputTokens) is true
\* exactly when inputTokens + estimatedOutputTokens + reservedOutputTokens
\* <= contextWindow, whatever totalUsedTokens and availableInputTokens
\* are; on a 200000 window with 4096 reserved it is true for (190000, 5000)
\* and false for (198000, 5000).
C23_AccommodateByWindow ==
    /\ \A a \in AccommodateArgs :
           canAccommodateTokens(budget, profile, a[1], a[2])
               <=> a[1] + a[2] + outputTokenBuffer <= contextWindowOf(profile)
    /\ last.op = "canAccommodateTokens" =>
           (last.ret <=> last.args[1] + last.args[2] + outputTokenBuffer
                             <= contextWindowOf(profile))
    /\ (last.op = "canAccommodateTokens" /\ contextWindowOf(profile) = 200000) =>
           /\ last.args = << 190000, 5000, 0, 0, 0 >> => last.ret = TRUE
           /\ last.args = << 198000, 5000, 0, 0, 0 >> => last.ret = FALSE

\* over budget, and the answer is still the window's
C23_Witness ==
    /\ last.op = "canAccommodateTokens"
    /\ last.args = << 190000, 5000, 0, 0, 0 >>
    /\ last.ret = TRUE
    /\ budget.availableInputTokens < 0
    /\ budget.totalUsedTokens > 0

----------------------------------------------------------------------------
(* Properties of a coordinator called several times, under CarrySpec *)

BetweenStreams == pc \in Terminal \cup { "Idle", "Preflight" }

\* C24: from the end of one createMessage call to the request of the next
\* both ledgers stay as they are; no step lowers totalUsedTokens, and once
\* shouldTruncateHistory holds it holds ever after; so after a call that
\* truncated, every later call truncates its history too.
C24_LedgersCarryOver ==
    /\ [][BetweenStreams => (budget' = budget /\ metrics' = metrics)]_vars
    /\ [][/\ budget'.totalUsedTokens >= budget.totalUsedTokens
          /\ shouldTruncateHistory(budget, modelInfo)
                 => shouldTruncateHistory(budget', modelInfo)]_vars
    /\ []((obs.overBefore /\ pc # "Idle") =>
              /\ OverAtDispatch
              /\ obs.truncs = 1
              /\ working = improvedTruncateConversation(history, defaultOptions))

\* the third call on a coordinator whose second call truncated: it starts
\* from the second call's ledgers and cuts a history of six messages again
C24_Witness ==
    /\ obs.calls = 3
    /\ obs.overBefore
    /\ pc = "Await"
    /\ obs.truncs = 1
    /\ Len(history) = 6
    /\ Len(working) < Len(history)
    /\ obs.preTotal = budget.totalUsedTokens
    /\ obs.preTotal > 0

----------------------------------------------------------------------------
(* Properties of the two ledgers together, under SessionSpec *)

\* the message_start handler calls updateUsage and trackCacheUsage one
\* after the other without suspending; between the two calls nothing else
\* runs
MidHandler == pc = "StartCache"
StartsHandled == pc \notin { "StartBudget", "StartCache" }

\* C25: after any calls and provider events the cache ledger's readTokens
\* equals the token ledger's cacheTokens.reads, its writeTokens is at most
\* cacheTokens.writes, and less once a start event carried both reads and
\* writes, and hits + misses is at most the number of start events handled.
C25_LedgersAgree ==
    /\ ~MidHandler =>
           /\ metrics.readTokens = budget.reads
           /\ metrics.writeTokens <= budget.writes
    /\ (StartsHandled /\ obs.both > 0) => metrics.writeTokens < budget.writes
    /\ metrics.hits + metrics.misses <= obs.tracks
    /\ obs.tracks <= obs.starts

\* two calls: a start event with writes only, one with reads and writes
C25_Witness ==
    /\ obs.calls = 2
    /\ obs.starts = 2
    /\ obs.both = 1
    /\ pc = "Drained"
    /\ budget.reads = 500 /\ metrics.readTokens = 500
    /\ budget.writes = 400 /\ metrics.writeTokens = 200
    /\ metrics.hits = 1 /\ metrics.misses = 1

----------------------------------------------------------------------------
\* a chunk operation called before the first initializeWrite call or after
\* a completed save, revert or reset
ChunkOpWhileClosed ==
    /\ wcall.phase \in { "never", "closed" }
    /\ wcall'.op \in { "addChunk", "getCurrentContent", "save" }

\* C26: addChunk, getCurrentContent and save fail with a "not initialized"
\* error (the writer's or the chunk manager's) and leave the target file as it was when they are called
\* before the first initializeWrite or after a completed save, revert or
\* reset and before the next initializeWrite; and initializeWrite called
\* with no DiffViewProvider set fails with "DiffViewProvider not set" and
\* changes neither the file system nor the writer.
C26_ChunkOpsOnlyWhenOpen ==
    [][/\ ChunkOpWhileClosed => (/\ wcall'.outcome \in { NotInitialized, ManagerNotInitialized }
                                  /\ disk' = disk)
       /\ (wcall'.op = "initializeWrite" /\ ~lfw.diffViewProvider.set)
              => (wcall'.outcome = ProviderNotSet /\ disk' = disk /\ lfw' = lfw)]_vars

====
